---- MODULE Spec2Model ----
(***************************************************************************)
(* Model of the Phlag JavaScript client: PhlagClient (src/src/PhlagClient.ts)*)
(* with its HTTP wrapper Client (src/src/Client.ts) and the file cache      *)
(* helpers of cache.ts (src/unnamed/part_006, lines 12-166).                *)
(*                                                                         *)
(* Every async method is a call in a slot; one action is one continuation  *)
(* of that call (the code between two awaits).  File contents, HTTP bodies *)
(* and JSON texts are sequences of tokens, so that a truncated or mixed    *)
(* file is a different text from every complete one.                       *)
(***************************************************************************)
EXTENDS Integers, Sequences, FiniteSets, TLC

(***************************************************************************)
(* Bounds of the model.                                                    *)
(***************************************************************************)
MaxCalls == 3      \* calls started in one behaviour, made one after the other
MaxConcCalls == 2  \* calls started in one behaviour, interleaved
MaxMixCalls == 3   \* calls started in one behaviour, two at a time interleaved
MaxShareCalls == 2 \* calls started in one behaviour, on two instances
MaxEnvCalls == 2   \* calls started in one behaviour, with withEnvironment
MaxAccCalls == 2   \* calls started in one behaviour, with the accessors
MaxPathCalls == 3  \* calls started in one behaviour, on instances of two environments
MaxTicks == 3      \* clock ticks in one behaviour
TickMs == 500      \* milliseconds per clock tick

(***************************************************************************)
(* JavaScript values.  t is the type tag, v the payload of a scalar, m the *)
(* own properties of a plain object.                                       *)
(***************************************************************************)
EmptyMap == [k \in {} |-> 0]

JsBool(b) == [t |-> "boolean", v |-> IF b THEN "true" ELSE "false", m |-> EmptyMap]
JsNum(n) == [t |-> "number", v |-> n, m |-> EmptyMap]
JsStr(s) == [t |-> "string", v |-> s, m |-> EmptyMap]
JsNull == [t |-> "null", v |-> "", m |-> EmptyMap]
JsUndefined == [t |-> "undefined", v |-> "", m |-> EmptyMap]
JsArray == [t |-> "array", v |-> "", m |-> EmptyMap]
JsFunction == [t |-> "function", v |-> "", m |-> EmptyMap]
JsObj(map) == [t |-> "object", v |-> "", m |-> map]

JsTrue == JsBool(TRUE)
JsFalse == JsBool(FALSE)

\* FlagValue = boolean | number | string | null
IsFlagValue(x) == x.t \in {"boolean", "number", "string", "null"}

\* typeof data === 'object' && data !== null && !Array.isArray(data)
IsPlainObject(x) == x.t = "object"

\* JavaScript truthiness of a value, as in `this.useFileCache && this.flagCache`
Truthy(x) ==
    CASE x.t \in {"null", "undefined"} -> FALSE
      [] x.t = "boolean" -> x.v = "true"
      [] x.t = "number" -> x.v # "0"
      [] x.t = "string" -> x.v # ""
      [] OTHER -> TRUE

(***************************************************************************)
(* JSON texts.  A text is a sequence of tokens: a scalar literal is one    *)
(* token, an object is "{" key value key value ... "}".                    *)
(***************************************************************************)
FlagNames == {"a", "constructor"}

\* the keys the server uses
KeyNames == {"a", "b", "constructor"}

\* properties every value inherits from Object.prototype (among FlagNames)
ObjectPrototypeNames == {"constructor"}

\* the value of a literal; a number literal beyond the range of a double
\* parses to Infinity
ScalarOfToken(tok) ==
    CASE tok = "true" -> JsTrue
      [] tok = "false" -> JsFalse
      [] tok = "null" -> JsNull
      [] tok = "5" -> JsNum("5")
      [] tok = "0" -> JsNum("0")
      [] tok = "1e999" -> JsNum("Infinity")
      [] tok = "\"on\"" -> JsStr("on")
      [] tok = "\"oops\"" -> JsStr("oops")
      [] tok = "{}" -> JsObj(EmptyMap)
      [] tok = "[]" -> JsArray
      [] OTHER -> JsUndefined

ValueTokens == {"true", "false", "null", "5", "0", "1e999", "\"on\"", "\"oops\"",
                "{}", "[]"}

\* the literal JSON.stringify emits for a value; Infinity is emitted as null
TokenOfScalar(x) ==
    CASE x.t = "boolean" -> x.v
      [] x.t = "null" -> "null"
      [] x.t = "number" -> IF x.v = "Infinity" THEN "null" ELSE x.v
      [] x.t = "string" -> "\"" \o x.v \o "\""
      [] x.t = "array" -> "[]"
      [] OTHER -> "{}"

\* the keys of an object text: the tokens at the even positions
IsObjectText(txt) ==
    /\ Len(txt) >= 2
    /\ Len(txt) % 2 = 0
    /\ txt[1] = "{"
    /\ txt[Len(txt)] = "}"
    /\ \A i \in 2..(Len(txt) - 1) :
          IF i % 2 = 0 THEN txt[i] \in KeyNames ELSE txt[i] \in ValueTokens

IsJsonText(txt) == IsObjectText(txt) \/ (Len(txt) = 1 /\ txt[1] \in ValueTokens)

\* JSON.parse of a well-formed text; a later duplicate key wins
JSONParse(txt) ==
    IF IsObjectText(txt)
    THEN LET keyPos == {i \in 2..(Len(txt) - 1) : i % 2 = 0}
             keys == {txt[i] : i \in keyPos}
             lastPos(k) == CHOOSE i \in keyPos :
                              /\ txt[i] = k
                              /\ \A j \in keyPos : txt[j] = k => j <= i
         IN  JsObj([k \in keys |-> ScalarOfToken(txt[lastPos(k) + 1])])
    ELSE ScalarOfToken(txt[1])

\* the order in which the keys of the modelled objects were inserted
KeyRank(k) == CASE k = "a" -> 1 [] k = "b" -> 2 [] OTHER -> 3

KeyBefore(x, y) == KeyRank(x) < KeyRank(y)

\* the keys of a map in the order JSON.stringify emits them
RECURSIVE KeySeq(_)
KeySeq(keys) ==
    IF keys = {} THEN << >>
    ELSE LET k == CHOOSE x \in keys : \A y \in keys : x = y \/ KeyBefore(x, y)
         IN  <<k>> \o KeySeq(keys \ {k})

RECURSIVE EntrySeq(_, _)
EntrySeq(map, ks) ==
    IF ks = << >> THEN << >>
    ELSE <<Head(ks), TokenOfScalar(map[Head(ks)])>> \o EntrySeq(map, Tail(ks))

\* JSON.stringify(data)
JSONStringify(x) ==
    IF x.t = "object"
    THEN <<"{">> \o EntrySeq(x.m, KeySeq(DOMAIN x.m)) \o <<"}">>
    ELSE <<TokenOfScalar(x)>>

(***************************************************************************)
(* Property access and the decoding of an HTTP body.                       *)
(***************************************************************************)
\* obj[name]: an own property, else a property inherited from Object.prototype,
\* else undefined.  null[name] and undefined[name] throw a TypeError.
PropertyThrows(obj) == obj.t \in {"null", "undefined"}

PropertyGet(obj, name) ==
    IF obj.t = "object" /\ name \in DOMAIN obj.m THEN obj.m[name]
    ELSE IF name \in ObjectPrototypeNames THEN JsFunction
    ELSE JsUndefined

\* x ?? null
NullishToNull(x) == IF x.t \in {"null", "undefined"} THEN JsNull ELSE x

\* Client.get, lines 80-102: the value decoded from the body text of a 2xx response
ClientGetDecode(text, returnObject) ==
    IF text = << >> THEN JsNull
    ELSE IF IsJsonText(text) THEN JSONParse(text)
    ELSE JsStr(text[1])

\* an error mapping that knows one kind only
handleErrorResponse_generic(statusCode, endpoint) == "PhlagError"

\* Client.handleErrorResponse: the failure kind of a non-2xx status on an endpoint
handleErrorResponse(statusCode, endpoint) ==
    IF statusCode = 401 THEN "AuthenticationError"
    ELSE IF statusCode = 404
         THEN IF endpoint[1] = "flag" THEN "InvalidFlagError"
              ELSE "InvalidEnvironmentError"
    ELSE "PhlagError"

\* response.ok
ResponseOk(statusCode) == statusCode >= 200 /\ statusCode <= 299

(***************************************************************************)
(* Inputs of the model: what the server answers and what callers pass.     *)
(***************************************************************************)
Statuses == {200, 401, 404, 500}

BulkBodies ==
    { <<"{", "a", "true", "}">>,
      <<"{", "b", "5", "}">>,
      << >>,
      <<"oops">> }

FlagBodies == { <<"true">>, <<"5">>, <<"\"on\"">>, <<"null">>, << >>, <<"oops">>,
                <<"{", "a", "true", "}">> }

Environments == {"production", "staging"}

None == << >>
Some(x) == <<x>>

\* a ?? b for an optional option
Coalesce(opt, default) == IF opt = None THEN default ELSE opt[1]

(***************************************************************************)
(* cache.ts                                                                *)
(***************************************************************************)
\* crypto.createHash('md5').update(s).digest('hex'), taken to be injective
Md5Hex(s) == "md5(" \o s \o ")"

TmpDir == "/tmp"

\* a default location that leaves the environment out of the hash
generateCacheFilename_noEnv(baseUrl, environment, customPath) ==
    IF customPath # None /\ customPath[1] # ""
    THEN customPath[1]
    ELSE TmpDir \o "/phlag_cache_" \o Md5Hex(baseUrl) \o ".json"

\* a derivation that forces the .json extension on an override path
generateCacheFilename_ext(baseUrl, environment, customPath) ==
    IF customPath # None /\ customPath[1] # ""
    THEN customPath[1] \o ".json"
    ELSE TmpDir \o "/phlag_cache_" \o Md5Hex(baseUrl \o "|" \o environment) \o ".json"

\* a default location that is one fixed file of the temporary directory
generateCacheFilename_fixed(baseUrl, environment, customPath) ==
    IF customPath # None /\ customPath[1] # ""
    THEN customPath[1]
    ELSE TmpDir \o "/phlag_cache.json"

\* generateCacheFilename, lines 43-58
generateCacheFilename(baseUrl, environment, customPath) ==
    IF customPath # None /\ customPath[1] # ""
    THEN customPath[1]
    ELSE TmpDir \o "/phlag_cache_" \o Md5Hex(baseUrl \o "|" \o environment) \o ".json"

\* `${cacheFile}.${process.pid}.tmp`
TempFileOf(cacheFile, pid) == cacheFile \o "." \o pid \o ".tmp"

\* a ttl check that still accepts a record of age exactly ttl
CacheExpired_strict(nowMs, mtimeMs, cacheTtl) == nowMs - mtimeMs > cacheTtl * 1000

\* now - mtime >= cacheTtl * 1000
CacheExpired(nowMs, mtimeMs, cacheTtl) == nowMs - mtimeMs >= cacheTtl * 1000

\* a read that hands back whatever JSON the file holds
ParseCacheContents_unchecked(contents) ==
    IF ~IsJsonText(contents) THEN JsNull ELSE JSONParse(contents)

\* loadCacheFromFile, lines 86-98: the result for the contents read; the
\* SyntaxError of JSON.parse is caught at line 95 and null is returned
ParseCacheContents(contents) ==
    IF ~IsJsonText(contents) THEN JsNull
    ELSE IF IsPlainObject(JSONParse(contents)) THEN JSONParse(contents)
    ELSE JsNull

(***************************************************************************)
(* State.                                                                  *)
(***************************************************************************)
VARIABLES
    clients,      \* per instance: the readonly fields of PhlagClient, and `live`
    flagCache,    \* per instance: PhlagClient.flagCache
    files,        \* the file system: path -> [content, mtime], and `whole`: the
                  \* value whose serialisation the content is, all of it
                  \* (observation only; undefined for any other content),
                  \* and `env`: the environment of the instance that wrote
                  \* to the file last (observation only)
    clock,        \* the wall clock, in ticks
    calls,        \* per slot: the async call running there
    started,      \* calls started so far
    last,         \* the call that completed last
    hist          \* per instance: history of its snapshot (observation only)

vars == <<clients, flagCache, files, clock, calls, started, last, hist>>

Inst == {1, 2}
Slots == {1, 2}

NowMs == clock * TickMs

NoClient ==
    [live |-> FALSE, baseUrl |-> "", apiKey |-> "", environment |-> "",
     timeout |-> 0, cacheEnabled |-> FALSE, cacheTtl |-> 0,
     useFileCache |-> FALSE, cacheFile |-> "", pid |-> "", node |-> FALSE,
     optCacheFile |-> None, hasRequire |-> FALSE, threw |-> ""]

\* the PhlagClient constructor, lines 78-92; optCacheFile records the
\* options.cacheFile the instance was constructed with (observation only)
NewPhlagClient(options, isNode, pid) ==
    [live |-> TRUE,
     baseUrl |-> options.baseUrl,
     apiKey |-> options.apiKey,
     environment |-> options.environment,
     timeout |-> Coalesce(options.timeout, 10000),
     cacheEnabled |-> Coalesce(options.cache, FALSE),
     cacheTtl |-> Coalesce(options.cacheTtl, 300),
     useFileCache |-> Coalesce(options.cache, FALSE) /\ isNode,
     cacheFile |-> generateCacheFilename(options.baseUrl, options.environment,
                                         options.cacheFile),
     pid |-> pid,
     node |-> isNode,
     optCacheFile |-> options.cacheFile,
     hasRequire |-> TRUE,
     threw |-> ""]

\* generateCacheFilename lines 47-53, called by the constructor at line 91 in
\* every runtime: without an override path it calls require('crypto'), and
\* where the runtime has no `require` the call throws a ReferenceError
generateCacheFilenameThrows(customPath, hasRequire) ==
    /\ ~(customPath # None /\ customPath[1] # "")
    /\ ~hasRequire

\* `require` is there under Node; outside Node it is absent, or a shim that a
\* bundler supplies
RequireOutcomes(isNode) == IF isNode THEN {TRUE} ELSE BOOLEAN

\* `new PhlagClient(options)` in a runtime: the instance, or no instance and the
\* error the constructor threw
Construct(options, isNode, pid, hasRequire) ==
    IF generateCacheFilenameThrows(options.cacheFile, hasRequire)
    THEN [NoClient EXCEPT !.threw = "ReferenceError", !.node = isNode, !.pid = pid,
                          !.hasRequire = hasRequire,
                          !.cacheEnabled = Coalesce(options.cache, FALSE)]
    ELSE [NewPhlagClient(options, isNode, pid) EXCEPT !.hasRequire = hasRequire]

IdleCall ==
    [pc |-> "idle", op |-> "", inst |-> 0, name |-> "",
     tc |-> 0, ep |-> << >>,
     statOk |-> FALSE, statM |-> 0, statT |-> 0, expired |-> FALSE,
     readOk |-> FALSE, readTxt |-> << >>, fileRes |-> "none",
     status |-> 0, fetched |-> JsUndefined, gotBody |-> FALSE,
     contents |-> << >>, fdLive |-> FALSE, wfail |-> "none", wrote |-> FALSE,
     preLoaded |-> FALSE, preStale |-> FALSE, preEmpty |-> FALSE,
     clearedSince |-> FALSE, staleAtClear |-> FALSE,
     preCleared |-> FALSE, tfail |-> "", timer |-> FALSE,
     early |-> FALSE, late |-> FALSE,
     preRec |-> << >>,
     outcome |-> "none", value |-> JsUndefined, error |-> ""]

NoHist == [loaded |-> FALSE, loadedAt |-> 0, cleared |-> FALSE]

FileExists(path) == path \in DOMAIN files

\* the file at `path`, if there is one (observation only: what a direct call
\* of writeCacheToFile found there when it began)
RecordAt(path) == IF FileExists(path) THEN <<files[path]>> ELSE << >>

WriteFile(fs, path, file) == [p \in DOMAIN fs \cup {path} |-> IF p = path THEN file ELSE fs[p]]

RemoveFile(fs, path) == [p \in DOMAIN fs \ {path} |-> fs[p]]

(***************************************************************************)
(* Steps shared by the calls.                                              *)
(***************************************************************************)
\* the slot s takes the call record c: a finished call leaves the slot
\* (early and late are observed only while the body is being read)
Settle(s, c, base) ==
    /\ last.pc = "idle"
    /\ LET d == IF c.pc = "text" THEN c ELSE [c EXCEPT !.early = FALSE, !.late = FALSE]
       IN  IF d.pc = "done"
           THEN /\ calls' = [base EXCEPT ![s] = IdleCall]
                /\ last' = d
           ELSE /\ calls' = [base EXCEPT ![s] = d]
                /\ last' = last

Return(c, val) == [c EXCEPT !.pc = "done", !.outcome = "returned", !.value = val]

Throw(c, err) == [c EXCEPT !.pc = "done", !.outcome = "raised", !.error = err]

\* a flag client that catches what the Transport raises and answers null
ClientGetRejects_swallow(c, err) == Return([c EXCEPT !.tfail = err], JsNull)

\* `await this.client.get(...)` rejects with err in getFlag (line 132) or in
\* loadCache (line 214): no try/catch surrounds it, nor the awaits of loadCache
\* in getFlag and warmCache or of getFlag in isEnabled, so the call rejects
ClientGetRejects(c, err) == Throw([c EXCEPT !.tfail = err], err)

\* Client.get lines 60-72: the timeout timer is set and fetch(url, ...) is
\* called: one request leaves for `endpoint`
IssueRequest(c, endpoint) ==
    [c EXCEPT !.pc = "fetch", !.tc = @ + 1, !.ep = endpoint, !.timer = TRUE]

\* clearTimeout(timeoutId), lines 74 and 104
clearTimeout(c) == [c EXCEPT !.timer = FALSE]

\* a client that asks the bulk endpoint for a single flag
FlagEndpoint_bulk(cl, name) == <<"all-flags", cl.environment>>

\* getFlag line 131: `flag/${this.environment}/${name}`
FlagEndpoint(cl, name) == <<"flag", cl.environment, name>>

\* a client that asks the single-flag endpoint for the whole environment
AllFlagsEndpoint_flag(cl) == <<"flag", cl.environment>>

AllFlagsEndpoint(cl) == <<"all-flags", cl.environment>>

\* a loadCache that goes to the server without reading the durable record
loadCacheEnter_fetchFirst(c, cl) == IssueRequest(c, AllFlagsEndpoint(cl))

\* loadCache, lines 205-217, up to its first await
loadCacheEnter(c, cl) ==
    IF cl.useFileCache
    THEN [c EXCEPT !.pc = "stat"]
    ELSE IssueRequest(c, AllFlagsEndpoint(cl))

\* writeCacheToFile has returned, and so has loadCache when it was the caller:
\* warmCache is done, getFlag resumes after its await
loadCacheReturn(c) ==
    IF c.op \in {"warmCache", "writeCacheToFile"} THEN Return(c, JsUndefined)
    ELSE [c EXCEPT !.pc = "ret"]

\* loadCacheFromFile returns null: to its caller, or to loadCache, which goes on
\* to the bulk fetch (PhlagClient.ts lines 213-214)
loadCacheFromFileNull(c, cl) ==
    IF c.op = "loadCacheFromFile" THEN Return([c EXCEPT !.fileRes = "miss"], JsNull)
    ELSE IssueRequest([c EXCEPT !.fileRes = "miss"], AllFlagsEndpoint(cl))

\* an isEnabled that tests the truthiness of the value
isEnabledResult_truthy(value) == JsBool(Truthy(value))

\* isEnabled line 155: value === true
isEnabledResult(value) == JsBool(value = JsTrue)

\* getFlag line 128 and isEnabled line 155
getFlagResult(c, cache) ==
    IF PropertyThrows(cache) THEN Throw(c, "TypeError")
    ELSE LET v == NullishToNull(PropertyGet(cache, c.name))
         IN  Return(c, IF c.op = "isEnabled" THEN isEnabledResult(v) ELSE v)

\* what the history records when a Load stores v in flagCache
Adopted(h, v) ==
    IF v.t = "null" THEN h
    ELSE [loaded |-> TRUE, loadedAt |-> NowMs, cleared |-> FALSE]

\* the other Loads of instance i whose bulk response has arrived and whose
\* body is still being read
AwaitingBody(s, i) ==
    {t \in Slots \ {s} : /\ calls[t].pc = "text"
                           /\ calls[t].inst = i
                           /\ calls[t].ep[1] = "all-flags"}

\* the bulk response of call s arrives: the calls of AwaitingBody received
\* theirs earlier (observation only)
ResponseArrives(s, cs) ==
    [t \in Slots |->
        IF cs[s].ep[1] = "all-flags" /\ t \in AwaitingBody(s, cs[s].inst)
        THEN [cs[t] EXCEPT !.early = TRUE] ELSE cs[t]]

\* call s stores its snapshot: a call that received its response earlier and
\* is still reading its body is late from now on (observation only)
SnapshotStored(s, cs) ==
    [t \in Slots |->
        IF t \in AwaitingBody(s, cs[s].inst) /\ cs[t].early
        THEN [cs[t] EXCEPT !.late = TRUE] ELSE cs[t]]

\* the snapshot of instance i is cleared or read from the record: no call is
\* late with respect to it (observation only)
SnapshotReset(i, cs) ==
    [t \in Slots |->
        IF cs[t].inst = i THEN [cs[t] EXCEPT !.late = FALSE] ELSE cs[t]]

\* a writer that holds the file at `path` open loses it when the path is unlinked
Orphan(cs, path) ==
    [t \in Slots |->
        IF cs[t].pc = "wwrite" /\ clients[cs[t].inst].cacheFile = path
        THEN [cs[t] EXCEPT !.fdLive = FALSE]
        ELSE cs[t]]

\* a write of `txt` at offset 0 of a file that holds `old`
Overlay(old, txt) ==
    IF Len(txt) >= Len(old) THEN txt
    ELSE txt \o SubSeq(old, Len(txt) + 1, Len(old))

InFlight == {t \in Slots : calls[t].pc # "idle"}

CanStart(s, i, limit, budget) ==
    /\ clients[i].live
    /\ calls[s].pc = "idle"
    /\ \A t \in Slots : t < s => calls[t].pc # "idle"
    /\ Cardinality(InFlight) < limit
    /\ started < budget

NewCall(op, i, name) ==
    [IdleCall EXCEPT
        !.op = op, !.inst = i, !.name = name,
        !.preLoaded = hist[i].loaded,
        !.preEmpty = (flagCache[i].t = "null"),
        !.preCleared = hist[i].cleared,
        !.preStale = /\ hist[i].loaded
                     /\ flagCache[i].t # "null"
                     /\ NowMs - hist[i].loadedAt >= clients[i].cacheTtl * 1000]

(***************************************************************************)
(* PhlagClient: the public methods, up to their first await.               *)
(***************************************************************************)
\* getFlag (op = "getFlag") and isEnabled (op = "isEnabled"), lines 121-134, 153-156
\* a getFlag that takes the cached path whether or not caching is enabled
getFlagCall_cacheAlways(s, i, name, op, limit, budget) ==
    /\ CanStart(s, i, limit, budget)
    /\ LET cl == clients[i]
           c == NewCall(op, i, name)
       IN  Settle(s,
                  IF flagCache[i].t = "null"
                  THEN loadCacheEnter(c, cl)
                  ELSE getFlagResult(c, flagCache[i]),
                  calls)
    /\ started' = started + 1
    /\ UNCHANGED <<clients, flagCache, files, clock, hist>>

getFlagCall(s, i, name, op, limit, budget) ==
    /\ CanStart(s, i, limit, budget)
    /\ LET cl == clients[i]
           c == NewCall(op, i, name)
       IN  Settle(s,
                  IF cl.cacheEnabled
                  THEN IF flagCache[i].t = "null"
                       THEN loadCacheEnter(c, cl)
                       ELSE getFlagResult(c, flagCache[i])
                  ELSE IssueRequest(c, FlagEndpoint(cl, name)),
                  calls)
    /\ started' = started + 1
    /\ UNCHANGED <<clients, flagCache, files, clock, hist>>

getFlag(s, i, name, limit, budget) == getFlagCall(s, i, name, "getFlag", limit, budget)

isEnabled(s, i, name, limit, budget) == getFlagCall(s, i, name, "isEnabled", limit, budget)

\* a warmCache that loads whether or not caching is enabled
warmCache_always(s, i, limit, budget) ==
    /\ CanStart(s, i, limit, budget)
    /\ Settle(s, loadCacheEnter(NewCall("warmCache", i, ""), clients[i]), calls)
    /\ started' = started + 1
    /\ UNCHANGED <<clients, flagCache, files, clock, hist>>

\* a warmCache that loads only when the instance holds no snapshot
warmCache_ifEmpty(s, i, limit, budget) ==
    /\ CanStart(s, i, limit, budget)
    /\ LET cl == clients[i]
           c == NewCall("warmCache", i, "")
       IN  Settle(s,
                  IF cl.cacheEnabled /\ flagCache[i].t = "null" THEN loadCacheEnter(c, cl)
                  ELSE Return(c, JsUndefined),
                  calls)
    /\ started' = started + 1
    /\ UNCHANGED <<clients, flagCache, files, clock, hist>>

\* warmCache, lines 239-243
warmCache(s, i, limit, budget) ==
    /\ CanStart(s, i, limit, budget)
    /\ LET cl == clients[i]
           c == NewCall("warmCache", i, "")
       IN  Settle(s,
                  IF cl.cacheEnabled THEN loadCacheEnter(c, cl)
                  ELSE Return(c, JsUndefined),
                  calls)
    /\ started' = started + 1
    /\ UNCHANGED <<clients, flagCache, files, clock, hist>>

\* clearCache, lines 254-262, up to the await of deleteCacheFile
clearCache(s, i, limit, budget) ==
    /\ CanStart(s, i, limit, budget)
    /\ LET cl == clients[i]
           c == NewCall("clearCache", i, "")
           marked == [t \in Slots |->
                        IF calls[t].pc # "idle" /\ calls[t].inst = i
                        THEN [calls[t] EXCEPT !.clearedSince = TRUE,
                                              !.staleAtClear = @ \/ calls[t].gotBody,
                                              !.late = FALSE]
                        ELSE calls[t]]
       IN  IF cl.cacheEnabled
           THEN /\ flagCache' = [flagCache EXCEPT ![i] = JsNull]
                /\ hist' = [hist EXCEPT ![i] = [NoHist EXCEPT !.cleared = TRUE]]
                /\ Settle(s,
                          IF cl.useFileCache THEN [c EXCEPT !.pc = "cunlink"]
                          ELSE Return(c, JsUndefined),
                          marked)
           ELSE /\ Settle(s, Return(c, JsUndefined), calls)
                /\ UNCHANGED <<flagCache, hist>>
    /\ started' = started + 1
    /\ UNCHANGED <<clients, files, clock>>

\* a withEnvironment that changes the environment of the instance it is called on
withEnvironment_inPlace(i, j, environment) ==
    /\ clients[i].live
    /\ ~clients[j].live
    /\ last.pc = "idle"
    /\ clients' = [clients EXCEPT ![i].environment = environment,
                                  ![j] = [clients[i] EXCEPT !.environment = environment]]
    /\ UNCHANGED <<flagCache, files, clock, calls, started, last, hist>>

\* withEnvironment, lines 182-192: the new instance j
withEnvironment(i, j, environment) ==
    /\ clients[i].live
    /\ ~clients[j].live
    /\ last.pc = "idle"
    /\ clients' = [clients EXCEPT ![j] =
          Construct([baseUrl |-> clients[i].baseUrl,
                     apiKey |-> clients[i].apiKey,
                     environment |-> environment,
                     timeout |-> Some(clients[i].timeout),
                     cache |-> Some(clients[i].cacheEnabled),
                     cacheTtl |-> Some(clients[i].cacheTtl),
                     cacheFile |-> None],
                    clients[i].node, clients[i].pid, clients[i].hasRequire)]
    /\ UNCHANGED <<flagCache, files, clock, calls, started, last, hist>>

\* an accessor that gives the ttl in milliseconds
AccessorValue_ms(cl, op) ==
    IF op = "getEnvironment" THEN JsStr(cl.environment)
    ELSE IF op = "isCacheEnabled" THEN JsBool(cl.cacheEnabled)
    ELSE IF op = "getCacheFile" THEN JsStr(cl.cacheFile)
    ELSE JsNum(ToString(cl.cacheTtl * 1000))

\* what the accessors return, lines 163-165 and 269-292
AccessorValue(cl, op) ==
    IF op = "getEnvironment" THEN JsStr(cl.environment)
    ELSE IF op = "isCacheEnabled" THEN JsBool(cl.cacheEnabled)
    ELSE IF op = "getCacheFile" THEN JsStr(cl.cacheFile)
    ELSE JsNum(ToString(cl.cacheTtl))

\* a synchronous accessor call on instance i: it returns at once
Accessor(i, op) ==
    /\ clients[i].live
    /\ last.pc = "idle"
    /\ last' = Return(NewCall(op, i, ""), AccessorValue(clients[i], op))
    /\ UNCHANGED <<clients, flagCache, files, clock, calls, started, hist>>

getEnvironment(i) == Accessor(i, "getEnvironment")

isCacheEnabled(i) == Accessor(i, "isCacheEnabled")

getCacheFile(i) == Accessor(i, "getCacheFile")

getCacheTtl(i) == Accessor(i, "getCacheTtl")

\* a direct call of writeCacheToFile(cacheFile, data), lines 111-115, with the
\* cache file of instance i
writeCacheToFile(s, i, data, limit, budget) ==
    /\ CanStart(s, i, limit, budget)
    /\ Settle(s, [NewCall("writeCacheToFile", i, "") EXCEPT
                     !.pc = "wtemp", !.fetched = data,
                     !.contents = JSONStringify(data),
                     !.preRec = RecordAt(clients[i].cacheFile)],
              calls)
    /\ started' = started + 1
    /\ UNCHANGED <<clients, flagCache, files, clock, hist>>

\* a direct call of loadCacheFromFile(cacheFile, cacheTtl), lines 70-77, with the
\* cache file and the ttl of instance i
loadCacheFromFile(s, i, limit, budget) ==
    /\ CanStart(s, i, limit, budget)
    /\ Settle(s, [NewCall("loadCacheFromFile", i, "") EXCEPT !.pc = "stat"], calls)
    /\ started' = started + 1
    /\ UNCHANGED <<clients, flagCache, files, clock, hist>>

\* a direct call of deleteCacheFile(cacheFile), lines 148-150
deleteCacheFileCall(s, i, limit, budget) ==
    /\ CanStart(s, i, limit, budget)
    /\ Settle(s, [NewCall("deleteCacheFile", i, "") EXCEPT !.pc = "cunlink"], calls)
    /\ started' = started + 1
    /\ UNCHANGED <<clients, flagCache, files, clock, hist>>

\* a deleteCacheFile without the catch: a failed unlink rejects the call
deleteCacheFile_rethrow(s) ==
    /\ calls[s].pc = "cunlink"
    /\ LET c == calls[s]
           path == clients[c.inst].cacheFile
       IN  \E ok \in BOOLEAN :
              IF ok /\ FileExists(path)
              THEN /\ files' = RemoveFile(files, path)
                   /\ Settle(s, Return(c, JsUndefined), Orphan(calls, path))
              ELSE /\ files' = files
                   /\ Settle(s, Throw(c, "Error"), calls)
    /\ UNCHANGED <<clients, flagCache, clock, started, hist>>

\* deleteCacheFile, lines 148-155, called by clearCache
deleteCacheFile(s) ==
    /\ calls[s].pc = "cunlink"
    /\ LET c == calls[s]
           path == clients[c.inst].cacheFile
       IN  \E ok \in BOOLEAN :
              IF ok /\ FileExists(path)
              THEN /\ files' = RemoveFile(files, path)
                   /\ Settle(s, Return(c, JsUndefined), Orphan(calls, path))
              ELSE /\ files' = files
                   /\ Settle(s, Return(c, JsUndefined), calls)
    /\ UNCHANGED <<clients, flagCache, clock, started, hist>>

\* getFlag resumes after `await this.loadCache()`, line 128
getFlagResume(s) ==
    /\ calls[s].pc = "ret"
    /\ Settle(s, getFlagResult(calls[s], flagCache[calls[s].inst]), calls)
    /\ UNCHANGED <<clients, flagCache, files, clock, started, hist>>

(***************************************************************************)
(* loadCacheFromFile, lines 70-99, with the continuation of loadCache that *)
(* receives its result (PhlagClient.ts lines 208-217).                     *)
(***************************************************************************)
\* `await fs.stat(cacheFile)` settles; Date.now() is read; the ttl is checked
loadCacheFromFileStat(s) ==
    /\ calls[s].pc = "stat"
    /\ LET c == calls[s]
           cl == clients[c.inst]
           miss(d) == loadCacheFromFileNull(d, cl)
       IN  \E ok \in BOOLEAN :
              IF ok /\ FileExists(cl.cacheFile)
              THEN LET m == files[cl.cacheFile].mtime
                       d == [c EXCEPT !.statOk = TRUE, !.statM = m, !.statT = NowMs,
                                      !.expired = CacheExpired(NowMs, m, cl.cacheTtl)]
                   IN  Settle(s, IF d.expired THEN miss(d) ELSE [d EXCEPT !.pc = "read"],
                              calls)
              ELSE Settle(s, miss(c), calls)
    /\ UNCHANGED <<clients, flagCache, files, clock, started, hist>>

\* `await fs.readFile(cacheFile)` settles; the contents are parsed and validated
loadCacheFromFileRead(s) ==
    /\ calls[s].pc = "read"
    /\ LET c == calls[s]
           i == c.inst
           cl == clients[i]
           miss(d) == loadCacheFromFileNull(d, cl)
       IN  \E ok \in BOOLEAN :
              IF ok /\ FileExists(cl.cacheFile)
              THEN LET txt == files[cl.cacheFile].content
                       cached == ParseCacheContents(txt)
                       d == [c EXCEPT !.readOk = TRUE, !.readTxt = txt]
                   IN  IF cached.t # "null" /\ c.op = "loadCacheFromFile"
                       THEN /\ Settle(s, Return([d EXCEPT !.fileRes = "hit"], cached),
                                      calls)
                            /\ UNCHANGED <<flagCache, hist>>
                       ELSE IF cached.t # "null"
                       THEN /\ flagCache' = [flagCache EXCEPT ![i] = cached]
                            /\ hist' = [hist EXCEPT ![i] = Adopted(@, cached)]
                            /\ Settle(s, loadCacheReturn([d EXCEPT !.fileRes = "hit"]),
                                      SnapshotReset(i, calls))
                       ELSE /\ Settle(s, miss(d), calls)
                            /\ UNCHANGED <<flagCache, hist>>
              ELSE /\ Settle(s, miss(c), calls)
                   /\ UNCHANGED <<flagCache, hist>>
    /\ UNCHANGED <<clients, files, clock, started>>

(***************************************************************************)
(* Client.get, lines 59-123.                                               *)
(***************************************************************************)
\* `await fetch(url, ...)` settles: a response with a status, a rejection
\* (network error), or the abort of the timeout timer
ClientGetFetch(s) ==
    /\ calls[s].pc = "fetch"
    /\ LET c == clearTimeout([calls[s] EXCEPT
                                 !.statOk = FALSE, !.statM = 0, !.statT = 0,
                                 !.expired = FALSE, !.readOk = FALSE,
                                 !.readTxt = << >>])
       IN  \/ \E st \in Statuses :
                Settle(s,
                       IF ResponseOk(st)
                       THEN [c EXCEPT !.pc = "text", !.status = st]
                       ELSE ClientGetRejects([c EXCEPT !.status = st],
                                             handleErrorResponse(st, c.ep)),
                       IF ResponseOk(st) THEN ResponseArrives(s, calls) ELSE calls)
           \/ Settle(s, ClientGetRejects(c, "NetworkError"), calls)
    /\ UNCHANGED <<clients, flagCache, files, clock, started, hist>>

\* the timeout timer of line 61 fires while it is set: controller.abort() makes
\* the pending fetch, or the pending reading of the body, reject with an
\* AbortError, which the catch turns into a NetworkError (lines 103-114)
ClientGetTimeout(s) ==
    /\ calls[s].timer
    /\ calls[s].pc \in {"fetch", "text"}
    /\ Settle(s, ClientGetRejects(clearTimeout(
                     [calls[s] EXCEPT !.statOk = FALSE, !.statM = 0, !.statT = 0,
                                      !.expired = FALSE, !.readOk = FALSE,
                                      !.readTxt = << >>]), "NetworkError"),
              calls)
    /\ UNCHANGED <<clients, flagCache, files, clock, started, hist>>

\* `await response.text()` settles, the body is decoded and handed to the
\* caller: getFlag returns it (line 132), loadCache stores it (lines 217-222)
ClientGetText(s) ==
    /\ calls[s].pc = "text"
    /\ LET c == calls[s]
           i == c.inst
           cl == clients[i]
           bulk == c.ep[1] = "all-flags"
       IN  \E body \in (IF bulk THEN BulkBodies ELSE FlagBodies) :
              LET v == ClientGetDecode(body, bulk)
                  d == [c EXCEPT !.fetched = v, !.gotBody = TRUE]
              IN  IF bulk
                  THEN /\ flagCache' = [flagCache EXCEPT ![i] = v]
                       /\ hist' = [hist EXCEPT ![i] = Adopted(@, v)]
                       /\ Settle(s,
                                 IF cl.useFileCache /\ Truthy(v)
                                 THEN [d EXCEPT !.pc = "wtemp",
                                                !.contents = JSONStringify(v)]
                                 ELSE loadCacheReturn(d),
                                 SnapshotStored(s, calls))
                  ELSE /\ Settle(s,
                                 Return(d, IF c.op = "isEnabled"
                                           THEN isEnabledResult(v) ELSE v),
                                 calls)
                       /\ UNCHANGED <<flagCache, hist>>
    /\ UNCHANGED <<clients, files, clock, started>>

\* a failed reading of the body that resets the snapshot of the instance
ClientGetTextFails_clears(s) ==
    /\ calls[s].pc = "text"
    /\ Settle(s, ClientGetRejects(calls[s], "NetworkError"), calls)
    /\ flagCache' = [flagCache EXCEPT ![calls[s].inst] = JsNull]
    /\ UNCHANGED <<clients, files, clock, started, hist>>

\* `await response.text()` rejects: the body could not be read
ClientGetTextFails(s) ==
    /\ calls[s].pc = "text"
    /\ Settle(s, ClientGetRejects(calls[s], "NetworkError"), calls)
    /\ UNCHANGED <<clients, flagCache, files, clock, started, hist>>

(***************************************************************************)
(* writeCacheToFile, lines 111-141.  Every failure is caught at line 135   *)
(* (or at lines 123 and 132), so the function always returns to loadCache, *)
(* which then returns.                                                     *)
(***************************************************************************)
\* a write step that rethrows instead of logging
writeCacheToFileCatch_rethrow(c, step) == Throw([c EXCEPT !.wfail = step], "FsError")

\* the catch of lines 135-140: the failure of `step` is logged, writeCacheToFile
\* returns, and so does loadCache
writeCacheToFileCatch(c, step) == loadCacheReturn([c EXCEPT !.wfail = step])

\* `await fs.writeFile(tempFile, contents)` settles
writeCacheToFileTemp(s) ==
    /\ calls[s].pc = "wtemp"
    /\ LET c == calls[s]
           cl == clients[c.inst]
           temp == TempFileOf(cl.cacheFile, cl.pid)
       IN  \/ /\ files' = WriteFile(files, temp, [content |-> c.contents, mtime |-> NowMs,
                                               whole |-> c.fetched,
                                               env |-> cl.environment])
              /\ Settle(s, [c EXCEPT !.pc = "wunlink"], calls)
           \/ \E left \in BOOLEAN :
                /\ files' = IF left
                            THEN WriteFile(files, temp, [content |-> << >>, mtime |-> NowMs,
                                                         whole |-> JsUndefined,
                                                         env |-> cl.environment])
                            ELSE files
                /\ Settle(s, writeCacheToFileCatch(c, "temp"), calls)
    /\ UNCHANGED <<clients, flagCache, clock, started, hist>>

\* `await fs.unlink(cacheFile)` settles; a failure is ignored (lines 121-125)
writeCacheToFileUnlink(s) ==
    /\ calls[s].pc = "wunlink"
    /\ LET c == calls[s]
           path == clients[c.inst].cacheFile
       IN  \E ok \in BOOLEAN :
              IF ok /\ FileExists(path)
              THEN /\ files' = RemoveFile(files, path)
                   /\ Settle(s, [c EXCEPT !.pc = "wopen"], Orphan(calls, path))
              ELSE /\ files' = files
                   /\ Settle(s, [c EXCEPT !.pc = "wopen",
                                          !.wfail = IF FileExists(path) THEN "unlink" ELSE @],
                             calls)
    /\ UNCHANGED <<clients, flagCache, clock, started, hist>>

\* `fs.writeFile(cacheFile, contents)` opens the file: it is created, or
\* truncated when it exists
writeCacheToFileOpen(s) ==
    /\ calls[s].pc = "wopen"
    /\ LET c == calls[s]
           path == clients[c.inst].cacheFile
       IN  \/ /\ files' = WriteFile(files, path, [content |-> << >>, mtime |-> NowMs,
                                               whole |-> JsUndefined,
                                               env |-> clients[c.inst].environment])
              /\ Settle(s, [c EXCEPT !.pc = "wwrite", !.fdLive = TRUE], calls)
           \/ /\ files' = files
              /\ Settle(s, writeCacheToFileCatch(c, "final"), calls)
    /\ UNCHANGED <<clients, flagCache, clock, started, hist>>

\* `fs.writeFile(cacheFile, contents)` writes and settles: all of the
\* contents, or on a failure a proper prefix of them
writeCacheToFileWrite(s) ==
    /\ calls[s].pc = "wwrite"
    /\ LET c == calls[s]
           path == clients[c.inst].cacheFile
           put(txt) == IF c.fdLive
                       THEN WriteFile(files, path,
                                      [content |-> Overlay(files[path].content, txt),
                                       mtime |-> NowMs,
                                       whole |-> IF Overlay(files[path].content, txt)
                                                      = c.contents
                                                 THEN c.fetched ELSE JsUndefined,
                                       env |-> clients[c.inst].environment])
                       ELSE files
       IN  \/ /\ files' = put(c.contents)
              /\ Settle(s, [c EXCEPT !.pc = "wclean", !.fdLive = FALSE, !.wrote = TRUE],
                        calls)
           \/ \E k \in 0..(Len(c.contents) - 1) :
                /\ files' = put(SubSeq(c.contents, 1, k))
                /\ Settle(s, writeCacheToFileCatch([c EXCEPT !.fdLive = FALSE], "final"),
                          calls)
    /\ UNCHANGED <<clients, flagCache, clock, started, hist>>

\* `await fs.unlink(tempFile)` settles; a failure is ignored (lines 130-134)
writeCacheToFileClean(s) ==
    /\ calls[s].pc = "wclean"
    /\ LET c == calls[s]
           cl == clients[c.inst]
           temp == TempFileOf(cl.cacheFile, cl.pid)
       IN  \E ok \in BOOLEAN :
              IF ok /\ FileExists(temp)
              THEN /\ files' = RemoveFile(files, temp)
                   /\ Settle(s, loadCacheReturn(c), calls)
              ELSE /\ files' = files
                   /\ Settle(s, loadCacheReturn([c EXCEPT !.wfail = "cleanup"]), calls)
    /\ UNCHANGED <<clients, flagCache, clock, started, hist>>

\* the caller has received the outcome of the call that completed last
Observe ==
    /\ last.pc # "idle"
    /\ last' = IdleCall
    /\ UNCHANGED <<clients, flagCache, files, clock, calls, started, hist>>

\* time passes
Tick ==
    /\ last.pc = "idle"
    /\ clock < MaxTicks
    /\ clock' = clock + 1
    /\ UNCHANGED <<clients, flagCache, files, calls, started, last, hist>>

(***************************************************************************)
(* Specifications.                                                         *)
(***************************************************************************)
BaseUrl == "http://localhost:8000"
ApiKey == "key"
Pid == "4242"

\* one instance constructed with `new PhlagClient(options)`, the options drawn
\* from the given sets
InitWithFile(cacheOpts, ttlOpts, nodes, fileOpts) ==
    /\ \E cache \in cacheOpts, ttl \in ttlOpts, isNode \in nodes, cacheFile \in fileOpts :
       \E hasRequire \in RequireOutcomes(isNode) :
          clients = [i \in Inst |->
                       IF i = 1
                       THEN Construct([baseUrl |-> BaseUrl, apiKey |-> ApiKey,
                                       environment |-> "production",
                                       timeout |-> None, cache |-> cache,
                                       cacheTtl |-> ttl, cacheFile |-> cacheFile],
                                      isNode, Pid, hasRequire)
                       ELSE NoClient]
    /\ flagCache = [i \in Inst |-> JsNull]
    /\ files = [p \in {} |-> 0]
    /\ clock = 0
    /\ calls = [s \in Slots |-> IdleCall]
    /\ started = 0
    /\ last = IdleCall
    /\ hist = [i \in Inst |-> NoHist]

InitWith(cacheOpts, ttlOpts, nodes) == InitWithFile(cacheOpts, ttlOpts, nodes, {None})

Step(s) ==
    \/ loadCacheFromFileStat(s)
    \/ loadCacheFromFileRead(s)
    \/ ClientGetFetch(s)
    \/ ClientGetTimeout(s)
    \/ ClientGetText(s)
    \/ ClientGetTextFails(s)
    \/ writeCacheToFileTemp(s)
    \/ writeCacheToFileUnlink(s)
    \/ writeCacheToFileOpen(s)
    \/ writeCacheToFileWrite(s)
    \/ writeCacheToFileClean(s)
    \/ deleteCacheFile(s)
    \/ getFlagResume(s)

Call(s, limit, budget) ==
    \E i \in Inst :
       \/ \E name \in FlagNames : getFlag(s, i, name, limit, budget)
       \/ \E name \in FlagNames : isEnabled(s, i, name, limit, budget)
       \/ warmCache(s, i, limit, budget)
       \/ clearCache(s, i, limit, budget)

\* one instance, its calls made one after the other
InitSeq == InitWith({None, Some(TRUE)}, {Some(1)}, {TRUE, FALSE})

NextSeq == (\E s \in Slots : Call(s, 1, MaxCalls) \/ Step(s)) \/ Tick \/ Observe

SpecSeq == InitSeq /\ [][NextSeq]_vars

\* one instance with file cache, its calls interleaved at their awaits
Init == InitWith({Some(TRUE)}, {None}, {TRUE})

Next == (\E s \in Slots : Call(s, 2, MaxConcCalls) \/ Step(s)) \/ Observe

Spec == Init /\ [][Next]_vars

\* one instance with file cache, three calls of which two at a time are
\* interleaved at their awaits: a call can read what two overlapping Loads wrote
MixCall(s, limit, budget) ==
    \E i \in Inst :
       \/ getFlag(s, i, "a", limit, budget)
       \/ warmCache(s, i, limit, budget)
       \/ clearCache(s, i, limit, budget)

NextMix == (\E s \in Slots : MixCall(s, 2, MaxMixCalls) \/ Step(s)) \/ Observe

SpecMix == Init /\ [][NextMix]_vars

\* two instances constructed with the same options in one process, which share
\* the default cache location; their calls made one after the other
InitShare ==
    /\ clients = [i \in Inst |->
                    NewPhlagClient([baseUrl |-> BaseUrl, apiKey |-> ApiKey,
                                    environment |-> "production",
                                    timeout |-> None, cache |-> Some(TRUE),
                                    cacheTtl |-> Some(1), cacheFile |-> None],
                                   TRUE, Pid)]
    /\ flagCache = [i \in Inst |-> JsNull]
    /\ files = [p \in {} |-> 0]
    /\ clock = 0
    /\ calls = [s \in Slots |-> IdleCall]
    /\ started = 0
    /\ last = IdleCall
    /\ hist = [i \in Inst |-> NoHist]

ShareCall(s, limit, budget) ==
    \E i \in Inst :
       \/ \E name \in FlagNames : getFlag(s, i, name, limit, budget)
       \/ warmCache(s, i, limit, budget)
       \/ clearCache(s, i, limit, budget)

NextShare == (\E s \in Slots : ShareCall(s, 1, MaxShareCalls) \/ Step(s)) \/ Tick \/ Observe

SpecShare == InitShare /\ [][NextShare]_vars

\* one instance without the file cache, its calls made one after the other.
\* The runtime runs every continuation that is ready and fires every timer that
\* is set; nothing makes the server answer or the network deliver.
LiveStep(s) ==
    \/ ClientGetFetch(s)
    \/ ClientGetTimeout(s)
    \/ ClientGetText(s)
    \/ ClientGetTextFails(s)
    \/ getFlagResume(s)

LiveCall(s, limit, budget) ==
    \E i \in Inst :
       \/ \E name \in FlagNames : getFlag(s, i, name, limit, budget)
       \/ warmCache(s, i, limit, budget)

InitLive == InitWith({None, Some(TRUE)}, {Some(1)}, {FALSE})

NextLive == (\E s \in Slots : LiveCall(s, 1, MaxCalls) \/ LiveStep(s)) \/ Observe

SpecLive ==
    /\ InitLive
    /\ [][NextLive]_vars
    /\ \A s \in Slots : WF_vars(ClientGetTimeout(s)) /\ WF_vars(getFlagResume(s))
    /\ WF_vars(Observe)

\* one instance and the instance withEnvironment derives from it, their calls
\* made one after the other
EnvCall(s, limit, budget) ==
    \E i \in Inst :
       \/ \E name \in FlagNames : getFlag(s, i, name, limit, budget)
       \/ warmCache(s, i, limit, budget)
       \/ clearCache(s, i, limit, budget)

CustomPath == "/var/cache/phlag.json"

InitEnv == InitWithFile({None, Some(TRUE)}, {None, Some(1)}, {TRUE}, {None, Some(CustomPath)})

NextEnv ==
    \/ \E s \in Slots : EnvCall(s, 1, MaxEnvCalls) \/ Step(s)
    \/ \E i, j \in Inst, environment \in Environments : withEnvironment(i, j, environment)
    \/ Observe

\* two instances constructed in one process for the same server and for two
\* environments, each with the default cache location or with the override path;
\* their calls made one after the other
InitPath ==
    /\ \E file1, file2 \in {None, Some(CustomPath)} :
          clients = [i \in Inst |->
                       NewPhlagClient([baseUrl |-> BaseUrl, apiKey |-> ApiKey,
                                       environment |-> IF i = 1 THEN "production"
                                                       ELSE "staging",
                                       timeout |-> None, cache |-> Some(TRUE),
                                       cacheTtl |-> None,
                                       cacheFile |-> IF i = 1 THEN file1 ELSE file2],
                                      TRUE, Pid)]
    /\ flagCache = [i \in Inst |-> JsNull]
    /\ files = [p \in {} |-> 0]
    /\ clock = 0
    /\ calls = [s \in Slots |-> IdleCall]
    /\ started = 0
    /\ last = IdleCall
    /\ hist = [i \in Inst |-> NoHist]

PathCall(s, limit, budget) ==
    \E i \in Inst :
       \/ getFlag(s, i, "a", limit, budget)
       \/ warmCache(s, i, limit, budget)
       \/ clearCache(s, i, limit, budget)

NextPath == (\E s \in Slots : PathCall(s, 1, MaxPathCalls) \/ Step(s)) \/ Observe

SpecPath == InitPath /\ [][NextPath]_vars

SpecEnv == InitEnv /\ [][NextEnv]_vars

\* an instance with caching and the instances withEnvironment derives from it:
\* their calls made one after the other, and the accessors called at any point
\* between the steps
InitAcc == InitWithFile({Some(TRUE)}, {None}, {TRUE}, {None, Some(CustomPath)})

NextAcc ==
    \/ \E s \in Slots : PathCall(s, 1, MaxAccCalls) \/ Step(s)
    \/ \E i, j \in Inst, environment \in Environments : withEnvironment(i, j, environment)
    \/ \E i \in Inst : getEnvironment(i) \/ isCacheEnabled(i) \/ getCacheFile(i)
                         \/ getCacheTtl(i)
    \/ Observe

SpecAcc == InitAcc /\ [][NextAcc]_vars

\* the snapshots handed to writeCacheToFile: FlagCache = Record<string, FlagValue>
FlagValues == {JsTrue, JsFalse, JsNum("5"), JsNum("Infinity"), JsStr("on"), JsNull}

Snapshots == {JsObj(EmptyMap)} \cup {JsObj([k \in {"a"} |-> v]) : v \in FlagValues}

\* the functions of cache.ts called directly, one call after the other
StoreStep(s) ==
    \/ loadCacheFromFileStat(s)
    \/ loadCacheFromFileRead(s)
    \/ writeCacheToFileTemp(s)
    \/ writeCacheToFileUnlink(s)
    \/ writeCacheToFileOpen(s)
    \/ writeCacheToFileWrite(s)
    \/ writeCacheToFileClean(s)
    \/ deleteCacheFile(s)

StoreCall(s, limit, budget) ==
    \E i \in Inst :
       \/ \E data \in Snapshots : writeCacheToFile(s, i, data, limit, budget)
       \/ loadCacheFromFile(s, i, limit, budget)
       \/ deleteCacheFileCall(s, i, limit, budget)

InitStore == InitWith({Some(TRUE)}, {Some(1)}, {TRUE})

NextStore == (\E s \in Slots : StoreCall(s, 1, MaxCalls) \/ StoreStep(s)) \/ Tick \/ Observe

SpecStore == InitStore /\ [][NextStore]_vars

(***************************************************************************)
(* Properties.                                                             *)
(***************************************************************************)
\* the calls in flight and the call that completed last
Records == {calls[s] : s \in Slots} \cup {last}

CachedLookups == {c \in Records : /\ c.op \in {"getFlag", "isEnabled"}
                                  /\ clients[c.inst].cacheEnabled}

\* C1: with caching enabled, a getFlag or isEnabled call made after a successful
\* Load of its instance, with no clearCache called since that Load, issues no
\* Transport call.
C1_NoTransportAfterLoad ==
    \A c \in CachedLookups : (c.preLoaded /\ ~c.clearedSince) => c.tc = 0

\* C2: with caching enabled, a getFlag call made when cacheTtl seconds or more
\* have passed since the snapshot of its instance was loaded answers only after
\* a new bulk all-flags fetch.
C2_RefreshAfterTtl ==
    \A c \in CachedLookups :
        (c.op = "getFlag" /\ c.preStale /\ c.pc = "done")
            => (c.tc >= 1 /\ c.ep = <<"all-flags", clients[c.inst].environment>>)

\* the getFlag calls with caching enabled that found the instance Empty and no
\* valid durable record (no file cache, or loadCacheFromFile returned null)
ColdGetFlags == {c \in CachedLookups : /\ c.op = "getFlag"
                                        /\ c.preEmpty
                                        /\ c.fileRes # "hit"}

\* C3: with caching enabled, the first getFlag(name) of an Empty instance without
\* a valid durable record issues exactly one Transport call, to
\* all-flags/{environment}, and returns the value the bulk response holds for name.
C3_FirstGetFlagOneBulkCall ==
    \A c \in ColdGetFlags :
        /\ c.tc <= 1
        /\ c.pc = "done" =>
              /\ c.tc = 1
              /\ c.ep = <<"all-flags", clients[c.inst].environment>>
              /\ (c.gotBody /\ c.fetched.t = "object")
                    => /\ c.outcome = "returned"
                       /\ c.name \in DOMAIN c.fetched.m
                             => c.value = c.fetched.m[c.name]

C3_Witness ==
    /\ last \in ColdGetFlags
    /\ last.fileRes = "miss"
    /\ last.outcome = "returned"
    /\ last.name = "a"
    /\ last.value = JsTrue
    /\ last.tc = 1

\* C4: with caching enabled, getFlag returns null for every name that is not a
\* key of the loaded snapshot, and never raises InvalidFlagError.
C4_MissingFlagIsNull ==
    /\ \A c \in CachedLookups : c.error # "InvalidFlagError"
    /\ (/\ last \in CachedLookups
        /\ last.op = "getFlag"
        /\ flagCache[last.inst].t = "object"
        /\ last.name \notin DOMAIN flagCache[last.inst].m)
          => (last.outcome = "returned" /\ last.value = JsNull)

\* this step is a call of clearCache on instance i
ClearCacheCalled(i) ==
    /\ started' = started + 1
    /\ \E s \in Slots :
          /\ calls[s].pc = "idle"
          /\ \/ (calls'[s].op = "clearCache" /\ calls'[s].inst = i)
             \/ (last'.op = "clearCache" /\ last'.inst = i /\ last.pc = "idle")

\* C5: with caching enabled, a Loaded instance stays Loaded under getFlag,
\* isEnabled and warmCache, whatever the Transport returns or raises; only a call
\* of clearCache takes it back to Empty.
C5_LoadedUntilClear ==
    [][\A i \in Inst :
          (flagCache[i].t # "null" /\ flagCache'[i].t = "null") => ClearCacheCalled(i)]_vars

\* C6: every value getFlag returns, with caching on or off, is a boolean, a
\* number, a string or null.
C6_GetFlagReturnsFlagValue ==
    \A c \in Records :
        (c.op = "getFlag" /\ c.outcome = "returned") => IsFlagValue(c.value)

\* the complete contents a writer can hand to fs.writeFile
CompleteContents == {JSONStringify(ClientGetDecode(b, TRUE)) : b \in BulkBodies}

\* C7: whatever writers and readers of one cache location run concurrently, the
\* contents a read returns are the complete contents of some write, never a
\* partial or mixed one.
C7_NoTornRead ==
    \A c \in Records : c.readOk => c.readTxt \in CompleteContents

\* C8: when a step of the durable write fails, the getFlag or warmCache call that
\* triggered the write still completes without raising, and getFlag returns the
\* value of the freshly fetched snapshot.
C8_WriteFailureSwallowed ==
    (last.pc = "done" /\ last.wfail # "none") =>
        /\ last.outcome = "returned"
        /\ last.op = "getFlag" =>
              last.value = NullishToNull(PropertyGet(last.fetched, last.name))
        /\ last.op = "isEnabled" =>
              last.value = JsBool(PropertyGet(last.fetched, last.name) = JsTrue)

C8_Witness ==
    /\ last.op = "getFlag"
    /\ last.wfail = "final"
    /\ last.outcome = "returned"
    /\ last.value = JsTrue

\* what a call saw of the cache file makes the record unusable
UnusableRecord(c) ==
    \/ ~c.statOk
    \/ c.statT - c.statM >= clients[c.inst].cacheTtl * 1000
    \/ ~c.readOk
    \/ ~IsJsonText(c.readTxt)
    \/ JSONParse(c.readTxt).t # "object"

\* C9: for a cache file that is missing, unreadable, malformed, not a plain
\* object, or of age >= ttl, loadCacheFromFile returns null and does not raise, and
\* the caller falls back to one bulk fetch.
C9_ReadFailsClosed ==
    \A c \in Records :
        /\ c.error \notin {"FsError", "SyntaxError"}
        /\ (c.fileRes # "none" /\ UnusableRecord(c)) =>
              /\ c.fileRes = "miss"
              /\ c.tc = 1
              /\ c.ep = <<"all-flags", clients[c.inst].environment>>

C9_Witness ==
    \E s \in Slots :
        /\ calls[s].pc = "fetch"
        /\ calls[s].readOk
        /\ calls[s].readTxt # << >>
        /\ ~IsJsonText(calls[s].readTxt)
        /\ calls[s].fileRes = "miss"

\* C10: a record last modified at T is absent for a read at a time >= T + ttl and
\* valid for a read at a time < T + ttl (ttl in seconds, times in milliseconds).
C10_ExpiryBoundary ==
    \A c \in Records :
        c.statOk =>
            IF c.statT >= c.statM + clients[c.inst].cacheTtl * 1000
            THEN c.expired /\ c.fileRes = "miss" /\ ~c.readOk
            ELSE /\ ~c.expired
                 /\ (c.pc = "read" \/ c.fileRes # "none")
                 /\ (c.readOk /\ IsObjectText(c.readTxt)) => c.fileRes = "hit"

C10_Witness ==
    \E s \in Slots :
        /\ calls[s].statOk
        /\ calls[s].statT = calls[s].statM + clients[calls[s].inst].cacheTtl * 1000
        /\ calls[s].fileRes = "miss"
        /\ FileExists(clients[calls[s].inst].cacheFile)
        /\ IsObjectText(files[clients[calls[s].inst].cacheFile].content)

\* this step is the return of a direct loadCacheFromFile call in slot s that has
\* read the file, which holds all of the serialisation of a snapshot and nothing
\* else (no write or delete since that snapshot was written)
ReadsBack(s) ==
    /\ calls[s].pc = "read"
    /\ calls[s].op = "loadCacheFromFile"
    /\ calls'[s].pc = "idle"
    /\ last'.readOk
    /\ FileExists(clients[calls[s].inst].cacheFile)
    /\ files[clients[calls[s].inst].cacheFile].whole.t = "object"

\* C11: a snapshot written with writeCacheToFile and read back with
\* loadCacheFromFile before ttl expiry, with no write or delete in between, is
\* returned equal to the snapshot that was written.
C11_RoundTrip ==
    [][\A s \in Slots :
          ReadsBack(s) =>
              /\ last'.outcome = "returned"
              /\ last'.value = files[clients[calls[s].inst].cacheFile].whole]_vars

\* this step is the read of the cache file by a getFlag call in slot s that
\* found its instance Empty; the file is within ttl (the stat has passed) and
\* holds all of what the durable write of some Load has put there
SharedRead(s) ==
    /\ calls[s].pc = "read"
    /\ calls[s].op = "getFlag"
    /\ calls[s].preEmpty
    /\ calls'[s].readOk
    /\ FileExists(clients[calls[s].inst].cacheFile)
    /\ files[clients[calls[s].inst].cacheFile].whole.t # "undefined"

\* C12: after one instance has loaded from the API and written the record, a
\* getFlag of an Empty instance with the same cache location, within ttl and with
\* no clear in between, adopts the record: its snapshot is the one that was
\* written, and it issues no Transport call.
C12_SecondInstanceAdopts ==
    [][\A s \in Slots :
          SharedRead(s) =>
              /\ calls'[s].fileRes = "hit"
              /\ calls'[s].tc = 0
              /\ calls'[s].pc = "ret"
              /\ flagCache'[calls[s].inst] =
                    files[clients[calls[s].inst].cacheFile].whole]_vars

\* C13: with caching enabled, the getFlag that follows a clearCache of its
\* instance (no Load has adopted a snapshot since the clear) does not adopt the
\* durable record and answers only after one bulk all-flags fetch.
C13_FreshFetchAfterClear ==
    \A c \in CachedLookups :
        (c.op = "getFlag" /\ c.preCleared) =>
            /\ c.fileRes # "hit"
            /\ c.pc = "done" =>
                  (c.tc = 1 /\ c.ep = <<"all-flags", clients[c.inst].environment>>)

\* C14: with caching enabled, every warmCache call issues one bulk all-flags
\* request, never answers from the durable record instead, and when it returns
\* the in-memory snapshot is the response of that request.
C14_WarmCacheFetches ==
    \A c \in Records :
        (c.op = "warmCache" /\ clients[c.inst].cacheEnabled) =>
            /\ c.fileRes # "hit"
            /\ c.pc = "done" =>
                  /\ c.tc = 1
                  /\ c.ep = <<"all-flags", clients[c.inst].environment>>
                  /\ c.outcome = "returned" =>
                        (c.gotBody /\ flagCache[c.inst] = c.fetched)

\* C15: with caching disabled, a warmCache or clearCache call returns at once
\* (it is never found waiting for the Transport or for the durable store), has
\* issued no Transport call and no durable read, write or delete, and its step
\* leaves the configuration, the snapshot and the files as they were.
C15_NoOpWhenCacheDisabled ==
    /\ [](\A s \in Slots :
             calls[s].op \in {"warmCache", "clearCache"}
                 => clients[calls[s].inst].cacheEnabled)
    /\ [][(/\ started' = started + 1
           /\ last' # last
           /\ last'.op \in {"warmCache", "clearCache"}
           /\ ~clients[last'.inst].cacheEnabled)
             => /\ last'.outcome = "returned"
                /\ last'.value = JsUndefined
                /\ last'.tc = 0
                /\ last'.fileRes = "none"
                /\ last'.wfail = "none"
                /\ ~last'.wrote
                /\ UNCHANGED <<clients, flagCache, files, calls, hist>>]_vars

C15_Witness ==
    /\ last.op = "clearCache"
    /\ ~clients[last.inst].cacheEnabled
    /\ last.outcome = "returned"
    /\ started = 2

\* the value getFlag yields to the isEnabled call c that has returned: the
\* lookup in the snapshot with caching on, the decoded response with caching off
GetFlagYield(c) ==
    IF clients[c.inst].cacheEnabled
    THEN NullishToNull(PropertyGet(flagCache[c.inst], c.name))
    ELSE c.fetched

\* C16: isEnabled(name) returns true exactly when getFlag(name) yields the
\* boolean true, and false for every other value, with caching on and off.
C16_IsEnabledIffTrue ==
    (last.op = "isEnabled" /\ last.outcome = "returned") =>
        /\ last.value \in {JsTrue, JsFalse}
        /\ last.value = JsTrue <=> GetFlagYield(last) = JsTrue

C16_Witness ==
    /\ last.op = "isEnabled"
    /\ last.outcome = "returned"
    /\ ~clients[last.inst].cacheEnabled
    /\ last.fetched = JsNum("5")
    /\ last.value = JsFalse

\* C17: with caching disabled, every getFlag(name) call issues exactly one
\* Transport GET, to flag/{environment}/{name}, whatever calls came before it.
C17_UncachedGetFlagOneRequest ==
    \A c \in Records :
        (c.op = "getFlag" /\ ~clients[c.inst].cacheEnabled) =>
            /\ c.tc = 1
            /\ c.ep = <<"flag", clients[c.inst].environment, c.name>>
            /\ c.fileRes = "none"

C17_Witness ==
    /\ last.op = "getFlag"
    /\ ~clients[last.inst].cacheEnabled
    /\ last.outcome = "returned"
    /\ last.tc = 1
    /\ started = MaxCalls

\* the five failure kinds of the Transport
TransportFailures ==
    {"AuthenticationError", "InvalidFlagError", "InvalidEnvironmentError",
     "PhlagError", "NetworkError"}

\* the call c has raised what its Transport call raised (a TypeError comes from
\* the lookup in the snapshot, never from the Transport)
TransportFailed(c) == c.outcome = "raised" /\ c.error # "TypeError"

\* C18: a failed Transport call raises exactly one of five kinds, fixed by what
\* happened: 401 AuthenticationError, 404 on flag/... InvalidFlagError, 404 on
\* any other endpoint InvalidEnvironmentError, any other non-2xx status
\* PhlagError, and NetworkError when the request or the reading of the body was
\* rejected or aborted.
C18_FailureClassification ==
    \A c \in Records :
        TransportFailed(c) =>
            /\ c.error \in TransportFailures
            /\ c.error =
                  (CASE c.status = 401 -> "AuthenticationError"
                     [] c.status = 404 /\ c.ep[1] = "flag" -> "InvalidFlagError"
                     [] c.status = 404 /\ c.ep[1] # "flag" -> "InvalidEnvironmentError"
                     [] c.status \in 200..299 \/ c.status = 0 -> "NetworkError"
                     [] OTHER -> "PhlagError")

C18_Witness ==
    /\ last.outcome = "raised"
    /\ last.error = "InvalidFlagError"
    /\ last.status = 404
    /\ last.ep = <<"flag", "production", "a">>

\* C19: a getFlag call whose request the server answers with 404 because the
\* environment does not exist raises InvalidEnvironmentError, with caching on
\* and off.
C19_MissingEnvironmentError ==
    \A c \in Records :
        (c.op = "getFlag" /\ c.status = 404 /\ c.pc = "done") =>
            (c.outcome = "raised" /\ c.error = "InvalidEnvironmentError")

\* the same for instances with caching enabled only
C19_MissingEnvironmentErrorCached ==
    \A c \in CachedLookups :
        (c.op = "getFlag" /\ c.status = 404 /\ c.pc = "done") =>
            (c.outcome = "raised" /\ c.error = "InvalidEnvironmentError")

\* C20: when the Transport call of a getFlag, isEnabled or warmCache call
\* fails, the call raises, and what it raises is the failure kind the Transport
\* raised.
C20_TransportFailurePropagates ==
    \A c \in Records :
        (c.op \in {"getFlag", "isEnabled", "warmCache"} /\ c.tfail # "") =>
            /\ c.pc = "done"
            /\ c.outcome = "raised"
            /\ c.error = c.tfail

C20_Witness ==
    /\ last.op = "warmCache"
    /\ last.tfail = "NetworkError"
    /\ last.outcome = "raised"
    /\ last.error = "NetworkError"

\* C21: every getFlag or warmCache call eventually returns or raises: a
\* Transport call that has not completed, headers and body, when the timeout
\* expires ends with a NetworkError.
C21_CallsTerminate ==
    \A s \in Slots : (calls[s].pc # "idle") ~> (calls[s].pc = "idle")

\* the part of it the timer covers: a call that waits for the response headers
\* eventually stops waiting for them
C21_FetchTerminates ==
    \A s \in Slots : (calls[s].pc = "fetch") ~> (calls[s].pc # "fetch")

\* this step belongs to a call on instance i: the call in slot s moves, or a
\* call on i starts in slot s
ActsOn(s, i) ==
    \/ (calls[s].pc # "idle" /\ calls[s].inst = i /\ calls'[s] # calls[s])
    \/ /\ calls[s].pc = "idle"
       /\ started' = started + 1
       /\ \/ calls'[s].inst = i
          \/ (last' # last /\ last'.inst = i)

\* C22: withEnvironment changes neither the configuration nor the snapshot of
\* the instance it is called on, and the in-memory snapshot of an instance
\* changes only in the steps of calls made on that instance, never in those of
\* the other one.
C22_InstanceIsolation ==
    [][\A i \in Inst :
          /\ clients[i].live => clients'[i] = clients[i]
          /\ flagCache'[i] # flagCache[i] => \E s \in Slots : ActsOn(s, i)]_vars

C22_Witness ==
    /\ clients[1].live
    /\ clients[2].live
    /\ clients[2].environment # clients[1].environment
    /\ flagCache[1].t = "object"
    /\ flagCache[2].t = "object"
    /\ flagCache[1] # flagCache[2]

\* C23: withEnvironment(e) called on instance i makes an instance whose
\* environment is e, whose server address, credential, timeout, cache-enabled
\* flag and ttl are those of i, which is Empty, and whose cache location differs
\* from that of i whenever e differs from the environment of i.
C23_WithEnvironmentResult ==
    [][\A i, j \in Inst, e \in Environments :
          withEnvironment(i, j, e) =>
              /\ clients'[j].live
              /\ clients'[j].environment = e
              /\ clients'[j].baseUrl = clients[i].baseUrl
              /\ clients'[j].apiKey = clients[i].apiKey
              /\ clients'[j].timeout = clients[i].timeout
              /\ clients'[j].cacheEnabled = clients[i].cacheEnabled
              /\ clients'[j].cacheTtl = clients[i].cacheTtl
              /\ flagCache'[j] = JsNull
              /\ e # clients[i].environment
                    => clients'[j].cacheFile # clients[i].cacheFile]_vars

C23_Witness ==
    /\ clients[2].live
    /\ clients[2].environment = "staging"
    /\ clients[2].cacheEnabled
    /\ clients[2].cacheTtl = 1
    /\ clients[2].cacheFile # clients[1].cacheFile
    /\ clients[1].cacheFile # CustomPath
    /\ flagCache[1].t = "object"
    /\ flagCache[2] = JsNull

C25_ClearCacheNeverRaises ==
    last.op = "clearCache" =>
        /\ last.outcome = "returned"
        /\ flagCache[last.inst] = JsNull

C25_Witness ==
    /\ last.op = "clearCache"
    /\ last.outcome = "returned"
    /\ last.preLoaded
    /\ ~last.preEmpty
    /\ clients[last.inst].useFileCache
    /\ FileExists(clients[last.inst].cacheFile)
    /\ flagCache[last.inst] = JsNull

\* C26: with caching enabled, every warmCache call runs the Load, also on a
\* Loaded instance: it issues at most one Transport call; where the file cache
\* is in use it has consulted the durable store when it completes; it has issued
\* no Transport call when the store gave a valid record, and exactly one, the
\* bulk all-flags request, when it did not.
C26_WarmCacheAlwaysLoads ==
    \A c \in Records :
        (c.op = "warmCache" /\ clients[c.inst].cacheEnabled) =>
            /\ c.tc <= 1
            /\ c.fileRes = "hit" => c.tc = 0
            /\ c.pc = "done" =>
                  /\ clients[c.inst].useFileCache <=> c.fileRes \in {"hit", "miss"}
                  /\ c.fileRes # "hit" =>
                        (c.tc = 1 /\ c.ep = <<"all-flags", clients[c.inst].environment>>)

C26_Witness ==
    /\ last.op = "warmCache"
    /\ clients[last.inst].useFileCache
    /\ last.preLoaded
    /\ ~last.preEmpty
    /\ last.fileRes = "miss"
    /\ last.tc = 1
    /\ last.outcome = "returned"
    /\ flagCache[last.inst] = last.fetched

\* the calls that can run the Load: warmCache, and getFlag or isEnabled with
\* caching enabled
Loads == {c \in Records : /\ c.op \in {"getFlag", "isEnabled", "warmCache"}
                          /\ clients[c.inst].cacheEnabled}

WritePcs == {"wtemp", "wunlink", "wopen", "wwrite", "wclean"}

\* C27: inside one Load, while the durable record is being read no Transport
\* call has been issued; with the file cache in use a Transport call is issued
\* only after the read returned absent, and it is the one bulk request; the
\* durable write is started only by the step that adopts the fetched snapshot
\* into memory, after a 2xx bulk response, and never after a durable-read hit
\* or a failed fetch.
C27_LoadOrdering ==
    /\ [](\A c \in Loads :
             /\ c.pc \in {"stat", "read"} => (c.tc = 0 /\ clients[c.inst].useFileCache)
             /\ c.tc > 0 =>
                   /\ c.tc = 1
                   /\ c.ep = <<"all-flags", clients[c.inst].environment>>
                   /\ clients[c.inst].useFileCache => c.fileRes = "miss"
             /\ (c.pc \in WritePcs \/ c.wrote \/ c.wfail # "none") =>
                   /\ clients[c.inst].useFileCache
                   /\ c.tc = 1
                   /\ c.gotBody
                   /\ ResponseOk(c.status)
                   /\ c.fileRes = "miss"
                   /\ c.tfail = "")
    /\ [][\A s \in Slots :
             (calls[s].pc # "wtemp" /\ calls'[s].pc = "wtemp") =>
                 /\ calls[s].pc = "text"
                 /\ flagCache'[calls[s].inst] = calls'[s].fetched
                 /\ files' = files]_vars

C27_Witness ==
    /\ last.op = "getFlag"
    /\ last.fileRes = "miss"
    /\ last.tc = 1
    /\ last.gotBody
    /\ last.wrote
    /\ last.outcome = "returned"
    /\ flagCache[last.inst] = last.fetched
    /\ FileExists(clients[last.inst].cacheFile)
    /\ files[clients[last.inst].cacheFile].whole = last.fetched

\* the snapshots a bulk response that holds a JSON object decodes to
CompleteSnapshots == {ClientGetDecode(b, TRUE) : b \in {x \in BulkBodies : IsJsonText(x)}}

\* another getFlag call that observed Empty is in flight beside s
ConcurrentColdLookup(s) ==
    \E t \in Slots \ {s} : /\ calls[t].pc # "idle"
                            /\ calls[t].op = "getFlag"
                            /\ calls[t].inst = calls[s].inst
                            /\ calls[t].preEmpty

\* the Load of the call c found a valid durable record or fetched an object
OwnLoadSucceeded(c) ==
    \/ c.fileRes = "hit"
    \/ c.gotBody /\ c.fetched.t = "object"

\* C28: when two getFlag calls of one instance have both observed Empty, each
\* has run its own Load (a durable read, and a bulk fetch unless the read hit),
\* and a call whose Load succeeded completes by returning the value that a
\* complete snapshot, the one in memory when it resumes, holds for its name.
C28_AtLeastOnceLoad ==
    [][\A s \in Slots :
          (/\ getFlagResume(s)
           /\ calls[s].op = "getFlag"
           /\ calls[s].preEmpty
           /\ ConcurrentColdLookup(s)
           /\ OwnLoadSucceeded(calls[s]))
          => /\ calls[s].fileRes \in {"hit", "miss"}
             /\ calls[s].fileRes = "miss" => calls[s].tc = 1
             /\ flagCache[calls[s].inst] \in CompleteSnapshots
             /\ last'.outcome = "returned"
             /\ last'.value = NullishToNull(PropertyGet(flagCache[calls[s].inst],
                                                       calls[s].name))]_vars

\* beside C28: a getFlag call that observed Empty and finds an object in memory
\* when it resumes finds a complete snapshot and returns what it holds
C28_ObjectSnapshotIsComplete ==
    [][\A s \in Slots :
          (/\ getFlagResume(s)
           /\ calls[s].op = "getFlag"
           /\ calls[s].preEmpty
           /\ flagCache[calls[s].inst].t = "object")
          => /\ calls[s].fileRes \in {"hit", "miss"}
             /\ flagCache[calls[s].inst] \in CompleteSnapshots
             /\ last'.outcome = "returned"
             /\ last'.value = NullishToNull(PropertyGet(flagCache[calls[s].inst],
                                                       calls[s].name))]_vars

\* what a 2xx bulk response can decode to: the complete result of one bulk fetch
BulkResults == {ClientGetDecode(b, TRUE) : b \in BulkBodies}

\* C29: in every reachable state the in-memory snapshot of an instance is Empty
\* or the complete result of one bulk fetch (adopted from the response, or read
\* back from the durable record of one fetch); it never holds flags of two
\* different fetches.
C29_SnapshotAtomicity ==
    \A i \in Inst : flagCache[i] = JsNull \/ flagCache[i] \in BulkResults

\* beside C29: every step that changes the snapshot assigns it whole: null, the
\* value decoded from one response, or the value parsed from one read
C29_ReplacedWholesale ==
    [][\A i \in Inst :
          flagCache'[i] # flagCache[i] =>
              \/ flagCache'[i] = JsNull
              \/ \E s \in Slots :
                    /\ calls[s].inst = i
                    /\ \/ /\ calls[s].pc = "text"
                          /\ flagCache'[i] \in BulkResults
                       \/ /\ calls[s].pc = "read"
                          /\ FileExists(clients[i].cacheFile)
                          /\ flagCache'[i]
                                = ParseCacheContents(files[clients[i].cacheFile].content)]_vars

\* the step of call s adopts the durable record into the memory of its instance
AdoptsRecord(s) ==
    /\ loadCacheFromFileRead(s)
    /\ flagCache'[calls[s].inst] # flagCache[calls[s].inst]

\* C30 as stated: two living instances of different environments never have the
\* same cache location, and an instance adopts a durable record only when it
\* was written by an instance of its own environment.
C30_NoSharedRecord ==
    /\ [](\A i, j \in Inst :
             (/\ clients[i].live /\ clients[j].live
              /\ clients[i].environment # clients[j].environment)
             => clients[i].cacheFile # clients[j].cacheFile)
    /\ [][\A s \in Slots :
             AdoptsRecord(s) =>
                 files[clients[calls[s].inst].cacheFile].env
                     = clients[calls[s].inst].environment]_vars

\* C30, amended: two living instances of different environments that were both
\* constructed without an override path never have the same cache location,
\* and an instance constructed without an override path adopts a durable
\* record only when it was written by an instance of its own environment.
C30_NoSharedDerivedRecord ==
    /\ [](\A i, j \in Inst :
             (/\ clients[i].live /\ clients[j].live
              /\ clients[i].optCacheFile = None /\ clients[j].optCacheFile = None
              /\ clients[i].environment # clients[j].environment)
             => clients[i].cacheFile # clients[j].cacheFile)
    /\ [][\A s \in Slots :
             (AdoptsRecord(s) /\ clients[calls[s].inst].optCacheFile = None) =>
                 files[clients[calls[s].inst].cacheFile].env
                     = clients[calls[s].inst].environment]_vars

C30_Witness ==
    /\ clients[1].optCacheFile = None /\ clients[2].optCacheFile = None
    /\ clients[1].environment # clients[2].environment
    /\ FileExists(clients[1].cacheFile)
    /\ files[clients[1].cacheFile].env = "production"
    /\ files[clients[1].cacheFile].whole.t = "object"
    /\ FileExists(clients[2].cacheFile)
    /\ files[clients[2].cacheFile].env = "staging"
    /\ last.inst = 2
    /\ last.fileRes = "hit"
    /\ last.tc = 0
    /\ flagCache[2] = files[clients[2].cacheFile].whole
    /\ flagCache[2] # files[clients[1].cacheFile].whole

\* the steps of the durable store: stat, read, the write steps, unlink
StorePcs == {"stat", "read", "cunlink"} \cup WritePcs

\* C31: with caching disabled, in every reachable state the in-memory snapshot
\* of the instance is Empty, no file exists at its cache location or at its
\* temporary location, and no call on it is reading, writing or deleting the
\* durable record or has done so; and no step changes the files.
C31_StatelessWhenCacheDisabled ==
    /\ [](\A i \in Inst :
             (clients[i].live /\ ~clients[i].cacheEnabled) =>
                 /\ flagCache[i] = JsNull
                 /\ ~FileExists(clients[i].cacheFile)
                 /\ ~FileExists(TempFileOf(clients[i].cacheFile, clients[i].pid))
                 /\ \A c \in Records :
                       (c.pc # "idle" /\ c.inst = i) =>
                           /\ c.pc \notin StorePcs
                           /\ c.fileRes = "none"
                           /\ ~c.statOk /\ ~c.readOk
                           /\ c.wfail = "none" /\ ~c.wrote)
    /\ [][(\A i \in Inst : clients[i].live => ~clients[i].cacheEnabled)
             => (files' = files /\ flagCache' = flagCache)]_vars

C31_Witness ==
    /\ ~clients[1].cacheEnabled
    /\ clients[1].node
    /\ started = 3
    /\ last.op = "getFlag"
    /\ last.outcome = "returned"
    /\ last.value = JsTrue
    /\ last.tc = 1
    /\ flagCache[1] = JsNull

\* C32: outside Node and with caching enabled the client is constructed and
\* caches in memory only: no call on it is in or past a step of the durable
\* store, no file appears, and a getFlag made once the instance is Loaded is
\* answered from the snapshot without a Transport call.
C32_MemoryOnlyOutsideNode ==
    \A i \in Inst :
        (~clients[i].node /\ clients[i].cacheEnabled) =>
            /\ clients[i].threw = ""
            /\ clients[i].live =>
                  /\ ~clients[i].useFileCache
                  /\ files = << >>
                  /\ \A c \in Records :
                        (c.pc # "idle" /\ c.inst = i) =>
                            /\ c.pc \notin StorePcs
                            /\ c.fileRes = "none"
                            /\ c.wfail = "none" /\ ~c.wrote
                            /\ (c.op = "getFlag" /\ ~c.preEmpty) => c.tc = 0

\* beside C32: the same for the instances that were constructed
C32_MemoryOnlyOnceConstructed ==
    \A i \in Inst :
        (clients[i].live /\ ~clients[i].node /\ clients[i].cacheEnabled) =>
            /\ ~clients[i].useFileCache
            /\ files = << >>
            /\ \A c \in Records :
                  (c.pc # "idle" /\ c.inst = i) =>
                      /\ c.pc \notin StorePcs
                      /\ c.fileRes = "none"
                      /\ c.wfail = "none" /\ ~c.wrote
                      /\ (c.op = "getFlag" /\ ~c.preEmpty) => c.tc = 0

AccessorOps == {"getEnvironment", "isCacheEnabled", "getCacheFile", "getCacheTtl"}

\* C33: no step changes the server address, credential, environment, timeout,
\* cache-enabled flag, cache location or ttl of a constructed instance; an
\* accessor call returns the field of its instance (the environment, the
\* cache-enabled flag, the cache location, the ttl in seconds), issues no
\* Transport call, and its step leaves the snapshots, the files, the calls in
\* flight and the clock as they were.
C33_ConfigurationImmutable ==
    /\ [][\A i \in Inst :
             clients[i].live =>
                 /\ clients'[i].live
                 /\ clients'[i].baseUrl = clients[i].baseUrl
                 /\ clients'[i].apiKey = clients[i].apiKey
                 /\ clients'[i].environment = clients[i].environment
                 /\ clients'[i].timeout = clients[i].timeout
                 /\ clients'[i].cacheEnabled = clients[i].cacheEnabled
                 /\ clients'[i].cacheFile = clients[i].cacheFile
                 /\ clients'[i].cacheTtl = clients[i].cacheTtl]_vars
    /\ [][(last' # last /\ last'.op \in AccessorOps) =>
             /\ last'.outcome = "returned"
             /\ last'.tc = 0
             /\ last'.op = "getEnvironment"
                   => last'.value = JsStr(clients[last'.inst].environment)
             /\ last'.op = "isCacheEnabled"
                   => last'.value = JsBool(clients[last'.inst].cacheEnabled)
             /\ last'.op = "getCacheFile"
                   => last'.value = JsStr(clients[last'.inst].cacheFile)
             /\ last'.op = "getCacheTtl"
                   => last'.value = JsNum(ToString(clients[last'.inst].cacheTtl))
             /\ UNCHANGED <<clients, flagCache, files, clock, calls, started, hist>>]_vars

C33_Witness ==
    /\ clients[1].live /\ clients[2].live
    /\ clients[1].environment = "production"
    /\ clients[2].environment = "staging"
    /\ clients[1].cacheFile = CustomPath
    /\ flagCache[1].t = "object"
    /\ started = 2
    /\ last.op = "getCacheFile"
    /\ last.inst = 1
    /\ last.value = JsStr(CustomPath)

\* C34: with caching enabled, a getFlag call that fails has failed with a
\* Transport failure, whatever clearCache and warmCache calls on the instance
\* it was interleaved with: resuming after its Load it finds a snapshot to
\* answer from.  (A call whose own bulk response was not a JSON object is left
\* to C35.)
C34_GetFlagFailsOnlyByTransport ==
    (/\ last.op = "getFlag"
     /\ clients[last.inst].cacheEnabled
     /\ last.outcome = "raised"
     /\ ~(last.gotBody /\ last.fetched.t # "object"))
    => last.error \in TransportFailures

\* C35: with caching enabled, a getFlag call whose bulk request was answered
\* with a 2xx response and whose body was read, whatever the body, has
\* returned, and its instance holds a snapshot.
C35_SuccessfulFetchLoads ==
    (/\ last.op = "getFlag"
     /\ clients[last.inst].cacheEnabled
     /\ last.gotBody
     /\ ResponseOk(last.status))
    => /\ last.outcome = "returned"
       /\ flagCache[last.inst] # JsNull

\* no clearCache call on instance i is in flight
ClearDone(i) ==
    \A t \in Slots : ~(calls[t].pc # "idle" /\ calls[t].op = "clearCache"
                                             /\ calls[t].inst = i)

\* C36: once every clearCache call on an instance has returned, a Load of that
\* instance that already held its fetched snapshot when a clearCache began
\* neither creates or writes the durable record nor changes the in-memory
\* snapshot.
C36_ClearNotUndone ==
    [][\A s \in Slots :
          (/\ calls[s].pc # "idle"
           /\ calls[s].staleAtClear
           /\ calls[s].fetched.t = "object"
           /\ ClearDone(calls[s].inst)
           /\ calls'[s] # calls[s])
          => /\ flagCache'[calls[s].inst] = flagCache[calls[s].inst]
             /\ LET path == clients[calls[s].inst].cacheFile
                IN  IF FileExists(path)
                    THEN path \in DOMAIN files' => files'[path] = files[path]
                    ELSE path \notin DOMAIN files']_vars

\* C37: a Load that ends in a Transport failure changes nothing: every step of
\* a Load call that has neither received a body nor found a durable record
\* leaves the snapshot and the files as they were; a Load that failed has
\* written and deleted nothing and raises the Transport failure; and a getFlag
\* that finds the instance Empty runs the Load again.
C37_FailedLoadChangesNothing ==
    /\ [][\A s \in Slots :
             (/\ calls[s] \in Loads
              /\ calls[s].pc \in {"stat", "read", "fetch", "text"}
              /\ \/ calls'[s].pc \in {"stat", "read", "fetch", "text"}
                 \/ last' # last /\ last'.tfail # "")
             => (flagCache' = flagCache /\ files' = files)]_vars
    /\ [](\A c \in Loads :
             /\ c.tfail # "" =>
                   /\ c.outcome = "raised" /\ c.error = c.tfail
                   /\ c.fileRes # "hit"
                   /\ ~c.gotBody
                   /\ ~c.wrote /\ c.wfail = "none"
                   /\ (flagCache[c.inst] = JsNull) <=> c.preEmpty
             /\ (c.op = "getFlag" /\ c.preEmpty /\ c.pc = "done")
                   => (c.tc = 1 \/ c.fileRes = "hit"))

C37_Witness ==
    /\ last.op = "warmCache"
    /\ clients[last.inst].useFileCache
    /\ last.tfail = "NetworkError"
    /\ last.outcome = "raised"
    /\ last.fileRes = "miss"
    /\ ~last.preEmpty
    /\ flagCache[last.inst].t = "object"
    /\ FileExists(clients[last.inst].cacheFile)

\* C38: freshness never regresses on one instance: a Load whose bulk response
\* arrived before the response that the snapshot now held came with (it is
\* late) never replaces that snapshot with its own.
C38_FreshnessNeverRegresses ==
    [][\A s \in Slots :
          (/\ calls[s].pc = "text"
           /\ calls[s].late
           /\ flagCache[calls[s].inst].t = "object"
           /\ \/ calls'[s].gotBody
              \/ calls'[s].pc = "idle" /\ last' # last /\ last'.gotBody
           /\ flagCache'[calls[s].inst].t = "object")
          => flagCache'[calls[s].inst] = flagCache[calls[s].inst]]_vars

\* C39: a durable write that fails leaves the previous record untouched: when
\* a call of writeCacheToFile has returned after a failure that its catch
\* logged (of the temporary write or of the final write), a complete record
\* that was at the cache location when the call began, and is still within
\* its ttl, is still there with the same content.
C39_FailedWriteKeepsRecord ==
    LET cl == clients[last.inst]
    IN  (/\ last.op = "writeCacheToFile"
         /\ last.wfail \in {"temp", "final"}
         /\ last.preRec # << >>
         /\ ParseCacheContents(last.preRec[1].content).t # "null"
         /\ ~CacheExpired(NowMs, last.preRec[1].mtime, cl.cacheTtl))
        => /\ FileExists(cl.cacheFile)
           /\ files[cl.cacheFile].content = last.preRec[1].content
           /\ files[cl.cacheFile].mtime = last.preRec[1].mtime

TempFileOfInst(i) == TempFileOf(clients[i].cacheFile, clients[i].pid)

\* C40: writeCacheToFile writes the temporary sibling first, removes the old
\* record, writes the final file and cleans up: while it is at the removal or at
\* the final write the temporary file holds the full contents, and whenever it
\* has returned, on success or after a swallowed failure of any step, no
\* temporary sibling file of the cache location exists.
C40_NoTemporaryLeftBehind ==
    /\ \A s \in Slots :
          calls[s].pc \in {"wunlink", "wopen", "wwrite"}
          => /\ FileExists(TempFileOfInst(calls[s].inst))
             /\ files[TempFileOfInst(calls[s].inst)].content = calls[s].contents
    /\ (last.op = "writeCacheToFile" /\ last.pc = "done")
          => ~FileExists(TempFileOfInst(last.inst))

\* C40, the case of a failed final write: when writeCacheToFile has returned
\* after the temporary write and the removal succeeded and the final write
\* failed (the failure is swallowed by its catch), no temporary sibling file of
\* the cache location exists.
C40_NoTemporaryAfterFailedFinalWrite ==
    (last.op = "writeCacheToFile" /\ last.pc = "done" /\ last.wfail = "final")
    => ~FileExists(TempFileOfInst(last.inst))

====
